---- MODULE Spec2Model ----
(***************************************************************************)
(* Model of ZBoson-Main-Analysis.ipynb: the three event loops (signal,     *)
(* background, data) that reduce a TChain of collision events to four      *)
(* output columns (mll, lead, sublead, weight) and write them to a ROOT    *)
(* file with one extend() call.                                            *)
(*                                                                         *)
(* Number representation.  The notebook works on floats; the model keeps   *)
(* integers:                                                               *)
(*   - momenta and energies are in MeV, as in the input files;             *)
(*   - lep_eta is in hundredths (2.47 is 247);                             *)
(*   - lep_phi is a quarter turn count (phi = q * pi/2), so that cos and   *)
(*     sin are -1, 0 or 1;                                                 *)
(*   - lep_z0 is in thousandths of a millimetre;                           *)
(*   - sinh(eta) and sin(theta) are tabulated in thousandths for the       *)
(*     pseudorapidities of the lepton catalogue;                           *)
(*   - the entries of the mass and pt columns are the notebook's values    *)
(*     times 1000 (MeV instead of GeV), the mass with a resolution of      *)
(*     100 MeV;                                                            *)
(*   - a weight is the pair <<numerator, denominator>> of the notebook's   *)
(*     product, and the integer 1 in the data loop.                        *)
(***************************************************************************)
EXTENDS Integers, Sequences, FiniteSets, TLC

VARIABLES
    pipe,       \* which of the three loops this run is: "signal", "background", "data"
    universe,   \* which catalogue of rows the input files are drawn from
    files,      \* the TChain: files[i] is the sample the i-th Add() opened
    origin,     \* the TChain: origin[r] is the file (1-based) row r came from
    samples,    \* samplesSig / samplesBck / <<d>>: cumulative GetEntries() after each Add
    infos,      \* infofile.infos: sample name -> metadata record
    pc,         \* "Idle", "Streaming", "Flushed", "Aborted" (uncaught KeyError) or
                \* "ZeroDivisionError" (uncaught, line 162)
    k,          \* rows seen
    kf,         \* rows kept
    index1,     \* candidate lepton index (0-based, as in the notebook)
    index2,     \* candidate lepton index (0-based)
    sample,     \* the name last assigned by the attribution if-chain
    invM,       \* output column mll
    leadpt,     \* output column lead
    subleadpt,  \* output column sublead
    weights,    \* output column weight
    event,      \* the current entry of the chain (the row being processed)
    sink,       \* batches written to the output tree by extend()
    kept,       \* whether the current row reached kf += 1
    touched,    \* whether the current row's per-lepton arrays were read
    attributed  \* the infofile.infos[sample] lookups so far: <<row, sample>> each

vars == <<pipe, universe, files, origin, samples, infos, pc, k, kf, index1, index2,
          sample, invM, leadpt, subleadpt, weights, event, sink, kept, touched,
          attributed>>

(***************************************************************************)
(* Bounds.                                                                 *)
(***************************************************************************)
MaxRows == 2        \* rows in the chain, all files together

(***************************************************************************)
(* Program constants.                                                      *)
(***************************************************************************)
lumi == 10
PtCut == 25000
ElectronType == 11
MuonType == 13

NoSample == "unbound"
NoEvent == [lep_n |-> -1]

SigNames == <<"Zee", "Zmumu", "Ztautau">>
BckNames == <<"ZqqZll", "WqqZll", "WpqqWmlv", "WplvWmqq", "WlvZqq", "llll", "lllv",
              "llvv", "lvvv", "single_top_tchan", "single_antitop_tchan", "Wplusenu">>
DataFiles == <<"data_A", "data_B", "data_C", "data_D">>

NamesOf(p) == IF p = "signal" THEN SigNames ELSE IF p = "background" THEN BckNames ELSE <<>>
FilesOf(p) == IF p = "data" THEN DataFiles ELSE NamesOf(p)

(***************************************************************************)
(* Arithmetic helpers standing for Python / numpy / ROOT float operations. *)
(***************************************************************************)
Abs(x) == IF x < 0 THEN -x ELSE x

RECURSIVE Bisect(_, _, _)
\* the integer square root of n, given lo * lo <= n < hi * hi
Bisect(n, lo, hi) ==
    IF hi - lo <= 1 THEN lo
    ELSE LET mid == (lo + hi) \div 2
         IN  IF mid * mid <= n THEN Bisect(n, mid, hi) ELSE Bisect(n, lo, mid)

\* cos and sin of phi = q * pi/2
CosQ(q) == CASE q % 4 = 0 -> 1 [] q % 4 = 1 -> 0 [] q % 4 = 2 -> -1 [] OTHER -> 0
SinQ(q) == CASE q % 4 = 0 -> 0 [] q % 4 = 1 -> 1 [] q % 4 = 2 -> 0 [] OTHER -> -1

\* 1000 * sinh(eta) for eta in hundredths
SinhMilli(eta) ==
    LET a == Abs(eta)
        v == CASE a = 0 -> 0 [] a = 145 -> 2014 [] a = 260 -> 6695
    IN  IF eta < 0 THEN -v ELSE v

\* 1000 * sin(theta), theta = 2*arctan(exp(-eta)), i.e. 1000 / cosh(eta)
SinThetaMilli(eta) ==
    LET a == Abs(eta)
    IN  CASE a = 0 -> 1000 [] a = 145 -> 445 [] a = 260 -> 148

(***************************************************************************)
(* ROOT.TLorentzVector, components in MeV.                                 *)
(***************************************************************************)
SetPtEtaPhiE(pt, eta, phi, e) ==
    [px |-> Abs(pt) * CosQ(phi),
     py |-> Abs(pt) * SinQ(phi),
     pz |-> (Abs(pt) * SinhMilli(eta)) \div 1000,
     e  |-> e]

TLVAdd(a, b) ==
    [px |-> a.px + b.px, py |-> a.py + b.py, pz |-> a.pz + b.pz, e |-> a.e + b.e]

\* TLorentzVector::M(): sqrt(M2) for M2 >= 0, -sqrt(-M2) otherwise
\* (computed in units of 100 MeV to stay inside 32-bit integers)
TLVM(v) ==
    LET e == v.e \div 100
        x == v.px \div 100
        y == v.py \div 100
        z == v.pz \div 100
        m2 == e * e - x * x - y * y - z * z
        p == Abs(x) + Abs(y) + Abs(z)
    IN  IF m2 >= 0 THEN 100 * Bisect(m2, 0, Abs(e) + 1)
                   ELSE -(100 * Bisect(-m2, 0, p + 1))

\* TLorentzVector::Pt()
TLVPt(v) ==
    LET x == v.px \div 100
        y == v.py \div 100
    IN  100 * Bisect(x * x + y * y, IF Abs(x) >= Abs(y) THEN Abs(x) ELSE Abs(y),
                     Abs(x) + Abs(y) + 1)

(***************************************************************************)
(* Signal loop, lines 161-174: the "good lepton" loop.                     *)
(* ev.lep is 1-based here; notebook index j is ev.lep[j + 1].              *)
(***************************************************************************)
\* mutant: the three tests of line 162 combined without short-circuit, so that the
\* divisions are evaluated whatever the pt is
PtIsoEvalEager(l) ==
    IF l.pt = 0 THEN "ZeroDivisionError"
    ELSE IF l.pt > PtCut /\ 100 * l.ptcone30 < 15 * l.pt /\ 100 * l.etcone20 < 15 * l.pt
         THEN "true"
         ELSE "false"

\* line 162, evaluated left to right as Python does: `and` stops at the first false
\* operand, so ptcone30 / pt is evaluated only when pt > 25000 holds and etcone20 / pt
\* only when the first two operands hold; a float division by 0 raises
\* ZeroDivisionError.  For pt > 0, x / pt < 0.15 is 100 * x < 15 * pt.
PtIsoEval(l) ==
    IF ~(l.pt > PtCut) THEN "false"
    ELSE IF l.pt = 0 THEN "ZeroDivisionError"
    ELSE IF ~(100 * l.ptcone30 < 15 * l.pt) THEN "false"
    ELSE IF 100 * l.etcone20 < 15 * l.pt THEN "true"
    ELSE "false"

\* the condition of line 162 holds
PassPtIso(l) == PtIsoEval(l) = "true"

\* lines 165-166 / 171-172: abs(z0 * sin(theta)) < 0.5
PassZ0(l) == Abs(l.z0 * SinThetaMilli(l.eta)) < 500000

\* lines 164-166 (tracksigd0 > 0: d0 / sig < 5 is d0 < 5 * sig)
GoodElectron(l) ==
    /\ l.type = ElectronType
    /\ Abs(l.eta) < 247
    /\ (Abs(l.eta) < 137 \/ Abs(l.eta) > 152)
    /\ l.d0 < 5 * l.sigd0
    /\ PassZ0(l)

\* mutant: the absolute value is taken of eta, not of the comparison
MuonEtaCutAbs(l) == Abs(l.eta) < 250

\* lines 170-172; abs(eta < 2.5) is abs() of a bool: truthy exactly when eta < 2.5
MuonEtaCut(l) == l.eta < 250

GoodMuon(l) ==
    /\ l.type = MuonType
    /\ MuonEtaCut(l)
    /\ l.d0 < 3 * l.sigd0
    /\ PassZ0(l)

\* one iteration of `for j in range(tree.lep_n)` on the loop state; once an exception
\* is raised nothing more is executed
LepStep(ev, j, st) ==
    LET l == ev.lep[j + 1]
        afterE == IF GoodElectron(l)
                  THEN [st EXCEPT !.goodlep = @ + 1, !.index1 = j]
                  ELSE st
        afterM == IF GoodMuon(l)
                  THEN [afterE EXCEPT !.goodlep = @ + 1, !.index2 = j]
                  ELSE afterE
    IN  IF st.raised THEN st
        ELSE IF PtIsoEval(l) = "ZeroDivisionError" THEN [st EXCEPT !.raised = TRUE]
        ELSE IF PassPtIso(l) THEN afterM
        ELSE st

RECURSIVE LepLoop(_, _, _)
LepLoop(ev, j, st) ==
    IF j >= ev.lep_n THEN st ELSE LepLoop(ev, j + 1, LepStep(ev, j, st))

(***************************************************************************)
(* Lead / sublead ordering and reconstruction (lines 178-188, 372-381,     *)
(* 554-563).                                                               *)
(***************************************************************************)
\* mutant: the comparison of line 178 reversed
LeadIndexReversed(ev, i1, i2) == IF ev.lep[i1 + 1].pt < ev.lep[i2 + 1].pt THEN i1 ELSE i2

LeadIndex(ev, i1, i2) == IF ev.lep[i1 + 1].pt > ev.lep[i2 + 1].pt THEN i1 ELSE i2
SubIndex(ev, i1, i2) == IF ev.lep[i1 + 1].pt > ev.lep[i2 + 1].pt THEN i2 ELSE i1

TLVOf(l) == SetPtEtaPhiE(l.pt, l.eta, l.phi, l.E)

Reconstruct(ev, i1, i2) ==
    LET leadlepton == TLVOf(ev.lep[LeadIndex(ev, i1, i2) + 1])
        subleadlepton == TLVOf(ev.lep[SubIndex(ev, i1, i2) + 1])
        lepton12 == TLVAdd(leadlepton, subleadlepton)
    IN  [invmass |-> TLVM(lepton12),
         ptlead  |-> TLVPt(leadlepton),
         ptsub   |-> TLVPt(subleadlepton)]

\* line 186: abs(invmass - 91.18) < 25.
InMassWindow(invmass) == Abs(invmass - 91180) < 25000

(***************************************************************************)
(* Sample attribution: the chain of independent `if`s on k (lines 195-200, *)
(* 385-408).  Each `if` that holds overwrites `sample`; if none holds the  *)
(* previous binding stays.                                                 *)
(***************************************************************************)
\* mutant: the upper edge of every range excluded
ChainCondExclusive(i, kk, bnd) ==
    IF i = 1 THEN kk < bnd[1] ELSE kk > bnd[i - 1] /\ kk < bnd[i]

ChainCond(i, kk, bnd) ==
    IF i = 1 THEN kk <= bnd[1] ELSE kk > bnd[i - 1] /\ kk <= bnd[i]

RECURSIVE IfChain(_, _, _, _, _)
IfChain(i, kk, bnd, names, cur) ==
    IF i > Len(names) THEN cur
    ELSE IfChain(i + 1, kk, bnd, names, IF ChainCond(i, kk, bnd) THEN names[i] ELSE cur)

\* mutant: every name sits one branch too early
AttributeSampleShifted(kk, bnd, names, prev) ==
    IfChain(1, kk, bnd, [i \in 1..Len(names) |-> names[(i % Len(names)) + 1]], prev)

AttributeSample(kk, bnd, names, prev) == IfChain(1, kk, bnd, names, prev)

(***************************************************************************)
(* Weight (lines 201-203, 409-411).                                        *)
(***************************************************************************)
Weight(info, ev) ==
    << lumi * 1000 * info.xsec
         * ev.mcWeight * ev.sfPILEUP * ev.sfELE * ev.sfMUON * ev.sfTRIG,
       info.sumw * info.red_eff >>


(***************************************************************************)
(* Input rows.  A lepton is one slot of the per-lepton arrays of a row; a  *)
(* row carries the fields the loops read.                                  *)
(***************************************************************************)
Lep(type, charge, pt, eta, phi, E, ptcone30, etcone20, d0, z0) ==
    [type |-> type, charge |-> charge, pt |-> pt, eta |-> eta, phi |-> phi, E |-> E,
     ptcone30 |-> ptcone30, etcone20 |-> etcone20, d0 |-> d0, sigd0 |-> 1, z0 |-> z0]

Row(trig, n, leps, jets, mcw) ==
    [trigE |-> trig[1], trigM |-> trig[2], lep_n |-> n, lep |-> leps, jet_n |-> jets,
     mcWeight |-> mcw, sfPILEUP |-> 1, sfELE |-> 1, sfMUON |-> 1, sfTRIG |-> 1]

\* isolated central leptons that pass every quality cut
EP50 == Lep(11,  1, 50000, 0, 0, 50000, 0, 0, 0, 0)
EM30 == Lep(11, -1, 30000, 0, 2, 30000, 0, 0, 0, 0)
EM50 == Lep(11, -1, 50000, 0, 2, 50000, 0, 0, 0, 0)
EP30 == Lep(11,  1, 30000, 0, 0, 30000, 0, 0, 0, 0)
MP50 == Lep(13,  1, 50000, 0, 0, 50000, 0, 0, 0, 0)
MM30 == Lep(13, -1, 30000, 0, 2, 30000, 0, 0, 0, 0)
\* leptons that sit on one side of a single cut
ELowPt   == Lep(11, -1, 20000, 0, 2, 20000, 0, 0, 0, 0)
EZeroPt  == Lep(11, -1, 0, 0, 2, 0, 0, 0, 0, 0)
ENonIso  == Lep(11, -1, 30000, 0, 2, 30000, 6000, 0, 0, 0)
ECrack   == Lep(11, -1, 30000, 145, 2, 67500, 0, 0, 0, 0)
ED0      == Lep(11, -1, 30000, 0, 2, 30000, 0, 0, 6, 0)
MD0      == Lep(13, -1, 30000, 0, 2, 30000, 0, 0, 4, 0)
MZ0      == Lep(13, -1, 30000, 0, 2, 30000, 0, 0, 0, 1000)
MFwd     == Lep(13, -1, 30000, 260, 2, 203100, 0, 0, 0, 0)
MBwd     == Lep(13, -1, 30000, -260, 2, 203100, 0, 0, 0, 0)
MFwdP    == Lep(13,  1, 50000, 260, 0, 338500, 0, 0, 0, 0)
MBwdP    == Lep(13,  1, 50000, -260, 0, 338500, 0, 0, 0, 0)

\* the rows of the driver runs: a Z -> ee pair under each trigger outcome and in both
\* slot orders, a pt tie, a row with a jet and an mcWeight of 2, a Z -> mumu pair, and
\* rows with 1 and 3 leptons
DriverRows ==
    {Row(<<FALSE, FALSE>>, 2, <<EP50, EM30>>, 0, 1),
     Row(<<TRUE, FALSE>>, 2, <<EP50, EM30>>, 0, 1),
     Row(<<FALSE, TRUE>>, 2, <<EM30, EP50>>, 0, 1),
     Row(<<TRUE, FALSE>>, 2, <<EP50, EM50>>, 0, 1),
     Row(<<TRUE, FALSE>>, 2, <<EP50, EM30>>, 1, 2),
     Row(<<FALSE, TRUE>>, 2, <<MP50, MM30>>, 0, 1),
     Row(<<TRUE, FALSE>>, 1, <<EP50>>, 0, 1),
     Row(<<FALSE, TRUE>>, 3, <<EP50, EM30, MM30>>, 0, 1),
     Row(<<FALSE, FALSE>>, 3, <<EP50, EM30, MM30>>, 0, 1)}

SelectorLeptons ==
    {EP50, EM30, EM50, EP30, MP50, MM30, ELowPt, EZeroPt, ENonIso, ECrack, ED0, MD0,
     MZ0, MFwd, MBwd, MFwdP, MBwdP}

\* the rows of the selector runs: every ordered pair of catalogue leptons on a fired
\* trigger without jets, and one row failing each event-level cut
SelectorRows ==
    {Row(<<TRUE, FALSE>>, 2, <<a, b>>, 0, 1) : a \in SelectorLeptons, b \in SelectorLeptons}
    \cup {Row(<<FALSE, FALSE>>, 2, <<EP50, EM30>>, 0, 1),
          Row(<<FALSE, TRUE>>, 2, <<MP50, MM30>>, 1, 1),
          Row(<<TRUE, FALSE>>, 2, <<EP50, EM30>>, 1, 1),
          Row(<<TRUE, FALSE>>, 1, <<EP50>>, 0, 1),
          Row(<<TRUE, FALSE>>, 3, <<EP50, EM30, MM30>>, 0, 1)}

\* the rows of the runs of the loops without lepton cuts: a Z -> ee pair, pairs failing
\* each of the signal cuts (quality, charge, flavour, mass window, jets), one pair
\* failing all of them, and rows failing the trigger and the lepton count
FixedRows ==
    {Row(<<TRUE, FALSE>>, 2, <<EP50, EM30>>, 0, 1),
     Row(<<FALSE, TRUE>>, 2, <<ENonIso, EP50>>, 0, 1),
     Row(<<TRUE, FALSE>>, 2, <<EP50, EP30>>, 0, 1),
     Row(<<TRUE, FALSE>>, 2, <<EP50, MM30>>, 0, 1),
     Row(<<TRUE, TRUE>>, 2, <<MFwdP, MBwd>>, 0, 1),
     Row(<<TRUE, FALSE>>, 2, <<EP50, EM30>>, 1, 1),
     Row(<<FALSE, TRUE>>, 2, <<EZeroPt, MD0>>, 1, 2),
     Row(<<FALSE, FALSE>>, 2, <<EP50, EM30>>, 0, 1),
     Row(<<TRUE, FALSE>>, 1, <<EP50>>, 0, 1),
     Row(<<TRUE, TRUE>>, 3, <<EP50, EM30, MM30>>, 0, 1)}

RowsOf(u) ==
    CASE u = "selector" -> SelectorRows
      [] u = "fixed" -> FixedRows
      [] OTHER -> DriverRows

(***************************************************************************)
(* Chain construction (lines 58-65, 260-285, 470-475) and the metadata     *)
(* table (line 38).                                                        *)
(***************************************************************************)
\* the chains of at most MaxRows rows over n files, files appended in order
Chains(n) ==
    UNION {{o \in [1..len -> 1..n] : \A r \in 1..(len - 1) : o[r] <= o[r + 1]} :
              len \in 0..MaxRows}

\* GetEntries() after the i-th Add
GetEntries(o, i) == Cardinality({r \in DOMAIN o : o[r] <= i})

\* [t1, t2, t3] / [b1, ..., b12]; the data cell keeps only the total d
SamplesOf(p, o) ==
    IF p = "data" THEN <<GetEntries(o, Len(DataFiles))>>
    ELSE [i \in 1..Len(NamesOf(p)) |-> GetEntries(o, i)]

AllNames == SigNames \o BckNames

InfoOf(name) ==
    [xsec |-> CHOOSE i \in 1..Len(AllNames) : AllNames[i] = name, sumw |-> 2, red_eff |-> 1]

InfoTable(missing) ==
    [n \in {AllNames[i] : i \in 1..Len(AllNames)} \ missing |-> InfoOf(n)]

\* the metadata tables of a run: complete, or without the entry of the sample the
\* last row of the chain belongs to; for the data loop, complete or empty
MissingOptions(p, o) ==
    IF p = "data" THEN {{}, {AllNames[i] : i \in 1..Len(AllNames)}}
    ELSE IF o = <<>> THEN {{}}
    ELSE {{}, {NamesOf(p)[o[Len(o)]]}}

(***************************************************************************)
(* Initial states: the kernel state before a loop cell runs.               *)
(***************************************************************************)
InitWith(u, p, f, o, missing) ==
    /\ universe = u
    /\ pipe = p
    /\ files = f
    /\ origin = o
    /\ samples = SamplesOf(p, o)
    /\ infos = InfoTable(missing)
    /\ pc = "Idle"
    /\ k = 0
    /\ kf = 0
    /\ index1 = 0
    /\ index2 = 0
    /\ sample = NoSample
    /\ invM = <<>>
    /\ leadpt = <<>>
    /\ subleadpt = <<>>
    /\ weights = <<>>
    /\ event = NoEvent
    /\ sink = <<>>
    /\ kept = FALSE
    /\ touched = FALSE
    /\ attributed = <<>>

Init ==
    \E p \in {"signal", "background", "data"} :
        \E o \in Chains(Len(FilesOf(p))) :
            \E missing \in MissingOptions(p, o) : InitWith("driver", p, FilesOf(p), o, missing)

\* the signal loop alone, on the large lepton catalogue, all rows in the first file
InitSel ==
    \E len \in 0..MaxRows : InitWith("selector", "signal", SigNames, [r \in 1..len |-> 1], {})

\* the background and data loops on the rows that fail the signal cuts, all rows in
\* the first file
InitFixed ==
    \E p \in {"background", "data"} :
        \E len \in 0..MaxRows :
            \E missing \in MissingOptions(p, [r \in 1..len |-> 1]) :
                InitWith("fixed", p, FilesOf(p), [r \in 1..len |-> 1], missing)

(***************************************************************************)
(* Loop prologue (lines 137-151, 354-367, 536-549).                        *)
(***************************************************************************)
Start ==
    /\ pc = "Idle"
    /\ pc' = "Streaming"
    /\ k' = 0
    /\ kf' = 0
    /\ index1' = 0
    /\ index2' = IF pipe = "signal" THEN 0 ELSE 1
    /\ invM' = <<>>
    /\ leadpt' = <<>>
    /\ subleadpt' = <<>>
    /\ weights' = <<>>
    /\ UNCHANGED <<pipe, universe, files, origin, samples, infos, sample, event, sink,
                   kept, touched, attributed>>

(***************************************************************************)
(* Lines 189-205 / 382-413: the three appends, the attribution, the        *)
(* metadata lookup, the weight append and kf += 1.  An unknown name is an  *)
(* uncaught KeyError at the lookup: the cell stops there.                  *)
(***************************************************************************)
\* mutant: the kept-event counter is not advanced
KeepMCNoCount(ev, rec, name) ==
    /\ invM' = Append(invM, rec.invmass)
    /\ leadpt' = Append(leadpt, rec.ptlead)
    /\ subleadpt' = Append(subleadpt, rec.ptsub)
    /\ sample' = name
    /\ attributed' = Append(attributed, <<k + 1, name>>)
    /\ weights' = Append(weights, Weight(infos[name], ev))
    /\ kept' = TRUE
    /\ UNCHANGED <<kf, pc>>

\* mutant: an unknown sample gets a default weight and the run goes on
KeepMCDefault(ev, rec, name) ==
    /\ invM' = Append(invM, rec.invmass)
    /\ leadpt' = Append(leadpt, rec.ptlead)
    /\ subleadpt' = Append(subleadpt, rec.ptsub)
    /\ sample' = name
    /\ attributed' = Append(attributed, <<k + 1, name>>)
    /\ weights' = Append(weights, IF name \in DOMAIN infos THEN Weight(infos[name], ev)
                                                          ELSE <<1, 1>>)
    /\ kf' = kf + 1
    /\ kept' = TRUE
    /\ pc' = pc

KeepMC(ev, rec, name) ==
    /\ invM' = Append(invM, rec.invmass)
    /\ leadpt' = Append(leadpt, rec.ptlead)
    /\ subleadpt' = Append(subleadpt, rec.ptsub)
    /\ sample' = name
    /\ attributed' = IF name # NoSample THEN Append(attributed, <<k + 1, name>>)
                                         ELSE attributed
    /\ IF name # NoSample /\ name \in DOMAIN infos
       THEN /\ weights' = Append(weights, Weight(infos[name], ev))
            /\ kf' = kf + 1
            /\ kept' = TRUE
            /\ pc' = pc
       ELSE /\ pc' = "Aborted"
            /\ kept' = FALSE
            /\ UNCHANGED <<weights, kf>>

Reject ==
    /\ kept' = FALSE
    /\ UNCHANGED <<invM, leadpt, subleadpt, weights, kf, sample, attributed, pc>>

(***************************************************************************)
(* One iteration of the signal loop (lines 152-205).                       *)
(***************************************************************************)
\* mutant: one good lepton is enough
PassPairLoose(ev, st) ==
    /\ st.goodlep >= 1
    /\ ev.jet_n = 0
    /\ ev.lep[st.index1 + 1].charge * ev.lep[st.index2 + 1].charge < 0
    /\ ev.lep[st.index1 + 1].type = ev.lep[st.index2 + 1].type

\* lines 176-177, on the indices the lepton loop left
PassPair(ev, st) ==
    /\ st.goodlep = 2
    /\ ev.jet_n = 0
    /\ ev.lep[st.index1 + 1].charge * ev.lep[st.index2 + 1].charge < 0
    /\ ev.lep[st.index1 + 1].type = ev.lep[st.index2 + 1].type

\* lines 154-186: the verdict on one row, given the candidate indices the
\* previous iterations left behind
SignalSelect(ev, i1, i2) ==
    LET inner == (ev.trigE \/ ev.trigM) /\ ev.lep_n = 2
        st0 == [goodlep |-> 0, index1 |-> i1, index2 |-> i2, raised |-> FALSE]
        st == IF inner THEN LepLoop(ev, 0, st0) ELSE st0
        pair == inner /\ ~st.raised /\ PassPair(ev, st)
        rec == IF pair THEN Reconstruct(ev, st.index1, st.index2)
                       ELSE [invmass |-> 0, ptlead |-> 0, ptsub |-> 0]
    IN  [inner |-> inner, index1 |-> st.index1, index2 |-> st.index2,
         raised |-> st.raised, pass |-> pair /\ InMassWindow(rec.invmass), rec |-> rec]

\* an uncaught ZeroDivisionError at line 162: the cell stops in the lepton loop
RaiseZeroDivision ==
    /\ pc' = "ZeroDivisionError"
    /\ kept' = FALSE
    /\ UNCHANGED <<invM, leadpt, subleadpt, weights, kf, sample, attributed>>

SignalBody(ev) ==
    \E sel \in {SignalSelect(ev, index1, index2)} :
        /\ k' = k + 1
        /\ event' = ev
        /\ touched' = sel.inner
        /\ index1' = sel.index1
        /\ index2' = sel.index2
        /\ IF sel.raised
           THEN RaiseZeroDivision
           ELSE IF sel.pass
           THEN \E name \in {AttributeSample(k + 1, samples, SigNames, sample)} :
                  KeepMC(ev, sel.rec, name)
           ELSE Reject
        /\ UNCHANGED <<pipe, universe, files, origin, samples, infos, sink>>

SignalRow ==
    /\ pc = "Streaming"
    /\ pipe = "signal"
    /\ k < Len(origin)
    /\ \E ev \in RowsOf(universe) : SignalBody(ev)

(***************************************************************************)
(* One iteration of the background loop (lines 368-413).                   *)
(***************************************************************************)
\* mutant: the opposite-charge cut of the signal loop applied here too
BackgroundBodyCharge(ev) ==
    LET inner == /\ (ev.trigE \/ ev.trigM) /\ ev.lep_n = 2
                 /\ ev.lep[index1 + 1].charge * ev.lep[index2 + 1].charge < 0
    IN  /\ k' = k + 1
        /\ event' = ev
        /\ touched' = inner
        /\ IF inner
           THEN \E rec \in {Reconstruct(ev, index1, index2)} :
                  \E name \in {AttributeSample(k + 1, samples, BckNames, sample)} :
                    KeepMC(ev, rec, name)
           ELSE Reject
        /\ UNCHANGED <<pipe, universe, files, origin, samples, infos, sink, index1,
                       index2>>

BackgroundBody(ev) ==
    LET inner == (ev.trigE \/ ev.trigM) /\ ev.lep_n = 2
    IN  /\ k' = k + 1
        /\ event' = ev
        /\ touched' = inner
        /\ IF inner
           THEN \E rec \in {Reconstruct(ev, index1, index2)} :
                  \E name \in {AttributeSample(k + 1, samples, BckNames, sample)} :
                    KeepMC(ev, rec, name)
           ELSE Reject
        /\ UNCHANGED <<pipe, universe, files, origin, samples, infos, sink, index1,
                       index2>>

BackgroundRow ==
    /\ pc = "Streaming"
    /\ pipe = "background"
    /\ k < Len(origin)
    /\ \E ev \in RowsOf(universe) : BackgroundBody(ev)

(***************************************************************************)
(* One iteration of the data loop (lines 550-568).                         *)
(***************************************************************************)
\* mutant: rows with more than two leptons are let through
DataBodyLoose(ev) ==
    LET inner == (ev.trigE \/ ev.trigM) /\ ev.lep_n >= 2
    IN  /\ k' = k + 1
        /\ event' = ev
        /\ touched' = inner
        /\ kept' = inner
        /\ IF inner
           THEN \E rec \in {Reconstruct(ev, index1, index2)} :
                  /\ invM' = Append(invM, rec.invmass)
                  /\ leadpt' = Append(leadpt, rec.ptlead)
                  /\ subleadpt' = Append(subleadpt, rec.ptsub)
                  /\ weights' = Append(weights, 1)
                  /\ kf' = kf + 1
           ELSE UNCHANGED <<invM, leadpt, subleadpt, weights, kf>>
        /\ UNCHANGED <<pipe, universe, files, origin, samples, infos, sink, index1,
                       index2, sample, attributed, pc>>

\* mutant: the data weight is the row's mcWeight
DataBodyMCWeight(ev) ==
    LET inner == (ev.trigE \/ ev.trigM) /\ ev.lep_n = 2
    IN  /\ k' = k + 1
        /\ event' = ev
        /\ touched' = inner
        /\ kept' = inner
        /\ IF inner
           THEN \E rec \in {Reconstruct(ev, index1, index2)} :
                  /\ invM' = Append(invM, rec.invmass)
                  /\ leadpt' = Append(leadpt, rec.ptlead)
                  /\ subleadpt' = Append(subleadpt, rec.ptsub)
                  /\ weights' = Append(weights, ev.mcWeight)
                  /\ kf' = kf + 1
           ELSE UNCHANGED <<invM, leadpt, subleadpt, weights, kf>>
        /\ UNCHANGED <<pipe, universe, files, origin, samples, infos, sink, index1,
                       index2, sample, attributed, pc>>

DataBody(ev) ==
    LET inner == (ev.trigE \/ ev.trigM) /\ ev.lep_n = 2
    IN  /\ k' = k + 1
        /\ event' = ev
        /\ touched' = inner
        /\ kept' = inner
        /\ IF inner
           THEN \E rec \in {Reconstruct(ev, index1, index2)} :
                  /\ invM' = Append(invM, rec.invmass)
                  /\ leadpt' = Append(leadpt, rec.ptlead)
                  /\ subleadpt' = Append(subleadpt, rec.ptsub)
                  /\ weights' = Append(weights, 1)
                  /\ kf' = kf + 1
           ELSE UNCHANGED <<invM, leadpt, subleadpt, weights, kf>>
        /\ UNCHANGED <<pipe, universe, files, origin, samples, infos, sink, index1,
                       index2, sample, attributed, pc>>

DataRow ==
    /\ pc = "Streaming"
    /\ pipe = "data"
    /\ k < Len(origin)
    /\ \E ev \in RowsOf(universe) : DataBody(ev)

(***************************************************************************)
(* End of the loop: the single extend() (lines 238, 440, 586).             *)
(***************************************************************************)
\* mutant: the batch is written as soon as one row is kept
FlushEarly ==
    /\ pc = "Streaming"
    /\ kf > 0
    /\ sink' = Append(sink, [mll |-> invM, lead |-> leadpt, sublead |-> subleadpt,
                             weight |-> weights])
    /\ pc' = "Flushed"
    /\ UNCHANGED <<pipe, universe, files, origin, samples, infos, k, kf, index1, index2,
                   sample, invM, leadpt, subleadpt, weights, event, kept, touched,
                   attributed>>

Flush ==
    /\ pc = "Streaming"
    /\ k = Len(origin)
    /\ sink' = Append(sink, [mll |-> invM, lead |-> leadpt, sublead |-> subleadpt,
                             weight |-> weights])
    /\ pc' = "Flushed"
    /\ UNCHANGED <<pipe, universe, files, origin, samples, infos, k, kf, index1, index2,
                   sample, invM, leadpt, subleadpt, weights, event, kept, touched,
                   attributed>>

Next == Start \/ SignalRow \/ BackgroundRow \/ DataRow \/ Flush

Spec == Init /\ [][Next]_vars

NextSel == Start \/ SignalRow \/ Flush

SpecSel == InitSel /\ [][NextSel]_vars

NextFixed == Start \/ BackgroundRow \/ DataRow \/ Flush

SpecFixed == InitFixed /\ [][NextFixed]_vars

\* the kernel runs the cell to its end: a loop iteration or the flush that can be
\* taken is taken
FairSpec == Spec /\ WF_vars(Next)

TypeOK ==
    /\ pc \in {"Idle", "Streaming", "Flushed", "Aborted", "ZeroDivisionError"}
    /\ k \in 0..Len(origin)
    /\ kf \in 0..k
    /\ index1 \in {0, 1}
    /\ index2 \in {0, 1}

(***************************************************************************)
(* The attribution if-chain applied to every row of a chain whose files    *)
(* were appended in an arbitrary order: the signal if-chain (lines         *)
(* 195-200) keeps its literal names, the Add() calls (lines 59-63) are     *)
(* permuted.                                                               *)
(***************************************************************************)
Perms(names) ==
    {f \in [1..Len(names) -> {names[i] : i \in 1..Len(names)}] :
        \A i, j \in 1..Len(names) : i # j => f[i] # f[j]}

InitPerm ==
    \E f \in Perms(SigNames) :
        \E o \in Chains(Len(SigNames)) : InitWith("driver", "signal", f, o, {})

ResolveRow ==
    /\ pc = "Streaming"
    /\ k < Len(origin)
    /\ k' = k + 1
    /\ \E name \in {AttributeSample(k + 1, samples, SigNames, sample)} :
         /\ sample' = name
         /\ attributed' = Append(attributed, <<k + 1, name>>)
    /\ UNCHANGED <<pipe, universe, files, origin, samples, infos, pc, kf, index1, index2,
                   invM, leadpt, subleadpt, weights, event, sink, kept, touched>>

NextPerm == Start \/ ResolveRow \/ Flush

SpecPerm == InitPerm /\ [][NextPerm]_vars

(***************************************************************************)
(* Properties.                                                             *)
(***************************************************************************)
Fired(ev) == ev.trigE \/ ev.trigM

MC == pipe \in {"signal", "background"}

\* the name attached to the first boundary >= kk
FirstBoundaryName(kk, bnd, names) ==
    names[CHOOSE i \in 1..Len(bnd) : bnd[i] >= kk /\ \A j \in 1..(i - 1) : bnd[j] < kk]

\* C1: in the signal and background loops, the name used for the metadata lookup of
\* the row at position k is the name attached to the first cumulative boundary >= k,
\* which is the file the row came from; on the boundaries [100, 250, 400] positions
\* 100, 101, 250, 251, 400 resolve to S1, S2, S2, S3, S3.
C1_AttributionIsOrigin ==
    /\ MC => \A i \in 1..Len(attributed) :
                LET row == attributed[i][1]
                    name == attributed[i][2]
                IN  /\ row \in 1..samples[Len(samples)]
                    /\ name = FirstBoundaryName(row, samples, NamesOf(pipe))
                    /\ name = files[origin[row]]
    /\ MC /\ (kept \/ pc = "Aborted") =>
          /\ Len(attributed) > 0
          /\ attributed[Len(attributed)] = <<k, sample>>
    /\ LET b == <<100, 250, 400>>
           n == <<"S1", "S2", "S3">>
       IN  /\ AttributeSample(100, b, n, NoSample) = "S1"
           /\ AttributeSample(101, b, n, NoSample) = "S2"
           /\ AttributeSample(250, b, n, NoSample) = "S2"
           /\ AttributeSample(251, b, n, NoSample) = "S3"
           /\ AttributeSample(400, b, n, NoSample) = "S3"

\* C1 witness: a kept second row that comes from a later file than the first row,
\* with an empty file between them (two equal adjacent boundaries)
C1_Witness ==
    /\ MC /\ kept /\ k = 2 /\ Len(attributed) = 2
    /\ origin[2] >= origin[1] + 2
    /\ sample = files[origin[2]]

\* a step that processes one row: it starts in the loop and is not the flush
RowStep == pc = "Streaming" /\ pc' # "Flushed"

Columns == <<invM, leadpt, subleadpt, weights>>

ColumnsAligned ==
    /\ Len(invM) = kf
    /\ Len(leadpt) = kf
    /\ Len(subleadpt) = kf
    /\ Len(weights) = kf
    /\ kf <= k

\* what a fully processed row does to the columns: one entry each if kept, none if not
RowGrowth ==
    LET d == IF kept' THEN 1 ELSE 0
    IN  /\ Len(invM') = Len(invM) + d
        /\ Len(leadpt') = Len(leadpt) + d
        /\ Len(subleadpt') = Len(subleadpt) + d
        /\ Len(weights') = Len(weights) + d
        /\ kf' = kf + d

\* C2: in each loop, after every fully processed row the four columns have the same
\* length, equal to kf, and kf <= k; a row grows all four by one entry if it is kept
\* and by none otherwise; the flushed batch has kf entries in every column.
C2_ColumnsGrowTogether ==
    /\ [](pc \in {"Streaming", "Flushed"} => ColumnsAligned)
    /\ [][RowStep /\ pc' = "Streaming" => RowGrowth]_vars
    /\ [](pc = "Flushed" => /\ Len(sink[1].mll) = kf
                            /\ Len(sink[1].lead) = kf
                            /\ Len(sink[1].sublead) = kf
                            /\ Len(sink[1].weight) = kf)

\* C2 witness: a flushed run of two rows of which exactly one was kept
C2_Witness == pc = "Flushed" /\ k = 2 /\ kf = 1 /\ Len(weights) = 1

\* the entries the current row put at the end of the columns
LastEntries ==
    [invmass |-> invM[Len(invM)], ptlead |-> leadpt[Len(leadpt)],
     ptsub |-> subleadpt[Len(subleadpt)]]

PcOrder ==
    /\ pc = "Idle" => pc' \in {"Idle", "Streaming"}
    /\ pc = "Streaming" => pc' \in {"Streaming", "Flushed", "Aborted"}
    /\ pc = "Flushed" => pc' = "Flushed"
    /\ pc = "Idle" /\ pc' = "Streaming" => k' = 0 /\ kf' = 0

\* a row step consumes exactly the next row; a kept row appends its own values at the
\* end of the columns and nothing else moves
RowInOrder ==
    /\ k' = k + 1
    /\ kept' => /\ \E rec \in {Reconstruct(event', index1', index2')} :
                      /\ invM' = Append(invM, rec.invmass)
                      /\ leadpt' = Append(leadpt, rec.ptlead)
                      /\ subleadpt' = Append(subleadpt, rec.ptsub)
                /\ Len(weights') = Len(weights) + 1
                /\ SubSeq(weights', 1, Len(weights)) = weights
    /\ ~kept' /\ pc' = "Streaming" => Columns' = Columns

FlushStep ==
    /\ k = Len(origin)
    /\ k' = k
    /\ kf' = kf
    /\ sink = <<>>
    /\ sink' = <<[mll |-> invM, lead |-> leadpt, sublead |-> subleadpt, weight |-> weights]>>

\* C3: the run goes Idle -> Streaming -> Flushed and never back; k starts at 0 and
\* grows by exactly 1 per row; the output tree receives exactly one batch, written only
\* when k equals the number of rows of the chain, holding the entries of the kept rows
\* in stream order, with kf entries per column.
C3_OneFlushAfterLastRow ==
    /\ [][PcOrder]_vars
    /\ [][RowStep => RowInOrder]_vars
    /\ [][pc # "Flushed" /\ pc' = "Flushed" => FlushStep]_vars
    /\ [][sink' # sink => pc' = "Flushed" /\ pc = "Streaming"]_vars
    /\ [](pc = "Flushed" => /\ Len(sink) = 1
                            /\ k = Len(origin)
                            /\ Len(sink[1].mll) = kf
                            /\ ColumnsAligned)
    /\ [](pc # "Flushed" => sink = <<>>)
    /\ <>(pc \in {"Flushed", "Aborted"})

\* C3 witness: a flushed two-row run whose batch holds the entries of both rows
C3_Witness ==
    /\ pc = "Flushed" /\ k = 2 /\ kf = 2
    /\ Len(sink) = 1 /\ Len(sink[1].mll) = 2 /\ sink[1].lead = leadpt

\* the verdict and the candidate indices of the current row do not depend on the rows
\* before it: they are those of the same row at the head of a stream
SameAsFirstRow ==
    LET fresh == SignalSelect(event, 0, 0)
    IN  /\ kept = fresh.pass
        /\ kept => /\ index1 = fresh.index1
                   /\ index2 = fresh.index2
                   /\ LastEntries = fresh.rec

\* C4: nothing but k, kf and the four columns is carried from one iteration to the
\* next: in the signal loop the verdict, the candidate indices and the output entry of
\* a row are the same after every prefix of earlier rows.
C4_VerdictIgnoresEarlierRows ==
    pipe = "signal" /\ event # NoEvent /\ pc # "Aborted" => SameAsFirstRow

\* C5: in the three loops a row with lep_n # 2, or on which no trigger fired, is
\* rejected before any per-lepton array is read: no column grows, kf and the
\* attribution stay, no metadata lookup is made, and k still advances by 1.
C5_RejectedRowLeavesNoTrace ==
    [][RowStep =>
          /\ k' = k + 1
          /\ (event'.lep_n # 2 \/ ~Fired(event')) =>
                /\ Columns' = Columns
                /\ kf' = kf
                /\ attributed' = attributed
                /\ sample' = sample
                /\ ~touched'
                /\ ~kept'
                /\ pc' = pc]_vars

\* C5 witness: a kept row followed by a triggered three-lepton row that left the
\* counters and columns of the first row in place
C5_Witness ==
    /\ pc = "Streaming" /\ k = 2 /\ kf = 1 /\ Len(invM) = 1
    /\ event.lep_n = 3 /\ Fired(event) /\ ~kept /\ ~touched

\* C6: in the signal and background loops a resolved name without a metadata entry
\* stops the run at that row: no weight entry for it, no default weight, no later row,
\* no batch written.
C6_UnknownSampleAborts ==
    /\ [][RowStep /\ MC /\ attributed' # attributed /\ sample' \notin DOMAIN infos =>
             /\ pc' = "Aborted"
             /\ weights' = weights
             /\ kf' = kf
             /\ sink' = sink]_vars
    /\ [][pc # "Aborted"]_vars
    /\ [](pc = "Aborted" => /\ MC
                            /\ sink = <<>>
                            /\ sample \notin DOMAIN infos
                            /\ attributed[Len(attributed)] = <<k, sample>>
                            /\ Len(weights) = kf
                            /\ Len(invM) = kf + 1)
    /\ [](MC /\ kept => sample \in DOMAIN infos)

\* C6 witness: the run stopped on its first row with a second row left unread
C6_Witness ==
    /\ pc = "Aborted" /\ k = 1 /\ Len(origin) = 2
    /\ Len(invM) = 1 /\ weights = <<>> /\ sink = <<>>

\* C7: in the data loop every kept row gets weight exactly 1 whatever its fields and
\* position; no sample name is resolved and the metadata table is never read, so the
\* loop cannot stop on a missing entry.
C7_DataWeightIsOne ==
    pipe = "data" =>
        /\ \A i \in 1..Len(weights) : weights[i] = 1
        /\ attributed = <<>>
        /\ sample = NoSample
        /\ pc # "Aborted"
        /\ pc \in {"Streaming", "Flushed"} => Len(weights) = kf
        /\ pc = "Flushed" => \A i \in 1..Len(sink[1].weight) : sink[1].weight[i] = 1

\* C7 witness: a flushed data run with an empty metadata table, two kept rows, the
\* last one with an mcWeight other than 1
C7_Witness ==
    /\ pipe = "data" /\ pc = "Flushed" /\ kf = 2
    /\ DOMAIN infos = {}
    /\ event.mcWeight = 2
    /\ sink[1].weight = <<1, 1>>

Max(a, b) == IF a >= b THEN a ELSE b
Min(a, b) == IF a <= b THEN a ELSE b

\* the current row put entries in the mass and pt columns
Reconstructed == kept \/ pc = "Aborted"

\* C8: for every kept row of every loop the recorded leading pt is >= the recorded
\* subleading pt; the leading lepton is the candidate with the strictly larger pt, on a
\* tie the second candidate; swapping the two candidates changes neither the recorded
\* pts nor the mass.
C8_LeadNotBelowSublead ==
    /\ \A i \in 1..Len(leadpt) : leadpt[i] >= subleadpt[i]
    /\ Reconstructed =>
          LET a == event.lep[index1 + 1]
              b == event.lep[index2 + 1]
          IN  /\ LastEntries.ptlead = Max(a.pt, b.pt)
              /\ LastEntries.ptsub = Min(a.pt, b.pt)
              /\ LeadIndex(event, index1, index2) = (IF a.pt > b.pt THEN index1 ELSE index2)
              /\ SubIndex(event, index1, index2) = (IF a.pt > b.pt THEN index2 ELSE index1)
              /\ Reconstruct(event, index1, index2) = LastEntries
              /\ Reconstruct(event, index2, index1) = LastEntries

\* C8 witness: a kept row whose second candidate has the larger pt
C8_Witness ==
    /\ kept /\ index1 = 0 /\ index2 = 1
    /\ event.lep[1].pt < event.lep[2].pt
    /\ leadpt[Len(leadpt)] = event.lep[2].pt

\* some row resolved to a name that is not the sample of the file it came from
SomeRowMisattributed ==
    \E i \in 1..Len(attributed) : attributed[i][2] # files[origin[attributed[i][1]]]

\* the files were not appended in the order of the names of the if-chain
Misordered == files # SigNames

\* some row comes from a file whose name is not at its own place in the if-chain
DisplacedFileHasRows == \E r \in 1..Len(origin) : files[origin[r]] # SigNames[origin[r]]

IsGood(l) == PassPtIso(l) /\ (GoodElectron(l) \/ GoodMuon(l))

\* the row satisfies every condition of the selection, taken on its own two leptons
Qualifies(ev) ==
    /\ Fired(ev)
    /\ ev.lep_n = 2
    /\ IsGood(ev.lep[1])
    /\ IsGood(ev.lep[2])
    /\ ev.jet_n = 0
    /\ ev.lep[1].charge * ev.lep[2].charge < 0
    /\ ev.lep[1].type = ev.lep[2].type
    /\ InMassWindow(Reconstruct(ev, 0, 1).invmass)

\* C10: in the signal loop, at any position of any stream, a row is kept whenever a
\* trigger fired, lep_n = 2, both leptons are good, jet_n = 0, the two leptons have
\* opposite charge and the same type and their mass is within 25 of 91.18; the
\* candidate indices are then those of the two leptons.
C10_QualifyingRowIsKept ==
    pipe = "signal" /\ event # NoEvent /\ pc # "Aborted" /\ Qualifies(event) =>
        /\ kept
        /\ {index1, index2} = {0, 1}

\* C11: in the signal loop, whenever a row is kept its two candidate indices are
\* distinct slots of that row, the leptons in both slots pass the good-lepton tests in
\* that row, they have opposite charge and the same type, jet_n is 0 and the recorded
\* mass is within 25 of 91.18 (also when an index was left by an earlier row).
C11_KeptPairIsGoodPair ==
    pipe = "signal" /\ kept =>
        /\ Fired(event) /\ event.lep_n = 2
        /\ index1 # index2
        /\ {index1, index2} \subseteq 0..(event.lep_n - 1)
        /\ IsGood(event.lep[index1 + 1])
        /\ IsGood(event.lep[index2 + 1])
        /\ event.lep[index1 + 1].charge * event.lep[index2 + 1].charge < 0
        /\ event.lep[index1 + 1].type = event.lep[index2 + 1].type
        /\ event.jet_n = 0
        /\ InMassWindow(LastEntries.invmass)
        /\ LastEntries = Reconstruct(event, index1, index2)

\* C11 witness: a kept electron pair in second position, after another kept row; its
\* index2 was not assigned in this row (no muon in it), its index1 was
C11_Witness ==
    /\ pipe = "signal" /\ kept /\ k = 2 /\ kf = 2
    /\ event.lep[1].type = ElectronType /\ event.lep[2].type = ElectronType
    /\ index1 = 1 /\ index2 = 0

\* C12: in the background and data loops a row passes the selection (it is
\* reconstructed from slots 0 and 1 and its entries are appended) exactly when a trigger
\* fired and lep_n = 2, whatever the quality, charge and type of its leptons, its
\* jet_n and its mass; unless the metadata lookup then stops the run, it is kept.
C12_FixedPairOnlyTriggerAndCount ==
    pipe \in {"background", "data"} /\ event # NoEvent =>
        /\ Reconstructed <=> (Fired(event) /\ event.lep_n = 2)
        /\ pc # "Aborted" => (kept <=> (Fired(event) /\ event.lep_n = 2))
        /\ index1 = 0 /\ index2 = 1
        /\ Reconstructed => LastEntries = Reconstruct(event, 0, 1)
        /\ Len(invM) = kf + (IF pc = "Aborted" THEN 1 ELSE 0)

\* C12 witness: a kept background row with a jet whose two leptons fail the quality
\* cuts, have the same charge and different types, and whose mass is outside the window
C12_Witness ==
    /\ pipe = "background" /\ kept
    /\ event.jet_n = 1
    /\ ~IsGood(event.lep[1]) /\ ~IsGood(event.lep[2])
    /\ event.lep[1].charge = event.lep[2].charge
    /\ event.lep[1].type # event.lep[2].type
    /\ ~InMassWindow(LastEntries.invmass)

\* a type-13 lepton that passes every good-muon test other than the one on eta
MuonButForEta(l) ==
    /\ PassPtIso(l)
    /\ l.type = MuonType
    /\ l.d0 < 3 * l.sigd0
    /\ PassZ0(l)

\* the row step examined the leptons of a signal row
LeptonsExamined == RowStep /\ pipe = "signal" /\ touched' /\ pc' = "Streaming"

\* C13 as stated: the eta condition of the muon block never excludes a type-13 lepton:
\* a lepton in the last slot that passes the other muon tests is recorded as the muon
\* candidate, whatever its eta.
C13_MuonEtaNeverExcludes ==
    [][LeptonsExamined /\ MuonButForEta(event'.lep[2]) => index2' = 1]_vars

\* C13 amended: the condition is true exactly when eta < 2.5: a type-13 lepton passing
\* the other muon tests is good for every eta < 2.5 (also eta <= -2.5) and is excluded
\* for eta >= 2.5.  The muon candidate index is then the last slot holding such a
\* lepton with eta < 2.5, or stays; a row with an excluded lepton is not kept; a pair
\* of backward muons is kept like any other good pair.
C13_MuonEtaCutIsOneSided ==
    [][LeptonsExamined =>
          LET a == event'.lep[1]
              b == event'.lep[2]
          IN  /\ index2' = (IF MuonButForEta(b) /\ b.eta < 250 THEN 1
                            ELSE IF MuonButForEta(a) /\ a.eta < 250 THEN 0
                            ELSE index2)
              /\ (\E l \in {a, b} : MuonButForEta(l) /\ l.eta >= 250) => ~kept'
              /\ ( /\ MuonButForEta(a) /\ MuonButForEta(b)
                   /\ a.eta <= -250 /\ b.eta <= -250
                   /\ a.charge * b.charge < 0
                   /\ event'.jet_n = 0
                   /\ InMassWindow(Reconstruct(event', 0, 1).invmass)
                   /\ index1 = 0 ) => kept']_vars

\* C13 witness: a kept pair of muons at eta = -2.6, in second position after a
\* rejected row
C13_Witness ==
    /\ pipe = "signal" /\ kept /\ k = 2 /\ kf = 1
    /\ event.lep[1].type = MuonType /\ event.lep[1].eta <= -250
    /\ event.lep[2].type = MuonType /\ event.lep[2].eta <= -250
    /\ index2 = 1

\* the row read last holds a lepton with pt = 0
HasZeroPt(ev) == \E j \in 1..ev.lep_n : ev.lep[j].pt = 0

\* C14 as stated: a triggered two-lepton signal row holding a lepton with pt = 0
\* reaches the division by that pt: the division by zero raises and stops the run.
C14_ZeroPtReachesDivision ==
    [][RowStep /\ pipe = "signal" /\ touched' /\ HasZeroPt(event') =>
          pc' = "ZeroDivisionError"]_vars

\* C14 amended: the pt threshold is tested before the isolation fractions and stops
\* the evaluation for pt = 0, so no division by zero is ever evaluated: the lepton is
\* not good, the row is rejected without leaving anything in the columns, the other
\* lepton of the row is still examined and the run goes on.
C14_ZeroPtRejectedBeforeDivision ==
    /\ [][RowStep /\ pipe = "signal" /\ touched' /\ HasZeroPt(event') =>
             /\ pc' = "Streaming"
             /\ ~kept'
             /\ Columns' = Columns
             /\ kf' = kf
             /\ (event'.lep[1].pt = 0 /\ IsGood(event'.lep[2])) =>
                    IF event'.lep[2].type = ElectronType
                    THEN index1' = 1 /\ index2' = index2
                    ELSE index2' = 1 /\ index1' = index1
             /\ (event'.lep[2].pt = 0 /\ IsGood(event'.lep[1])) =>
                    IF event'.lep[1].type = ElectronType
                    THEN index1' = 0 /\ index2' = index2
                    ELSE index2' = 0 /\ index1' = index1]_vars
    /\ [][pc' # "ZeroDivisionError"]_vars

\* C14 witness: after a kept row, a row with a pt = 0 lepton in its first slot and a
\* good electron in its second was examined and rejected, and the loop goes on
C14_Witness ==
    /\ pipe = "signal" /\ pc = "Streaming" /\ k = 2 /\ kf = 1
    /\ touched /\ ~kept
    /\ event.lep[1].pt = 0
    /\ IsGood(event.lep[2]) /\ event.lep[2].type = ElectronType
    /\ index1 = 1
    /\ Len(invM) = 1

====
